---- MODULE Spec2Model ----
(***************************************************************************)
(* Restaurant management dashboard (src/app.py): the RestaurantDB          *)
(* persistence class over one SQLite file, and the Streamlit script that   *)
(* is re-executed top to bottom on every user interaction.                 *)
(*                                                                         *)
(* REAL columns hold integers here (prices are whole currency units), and  *)
(* TIMESTAMP columns hold whole hours since 1970-01-01 00:00 UTC.          *)
(***************************************************************************)
EXTENDS Integers, Sequences, FiniteSets

VARIABLES
    disk,     \* the committed content of the database file
    conn,     \* the content as the open connection sees it (own uncommitted writes included)
    pc,       \* position inside place_order: "idle", "insert_order", "insert_items", "commit"
    frame,    \* place_order's locals: item_ids, total_rev, total_cost, order_id, k
    now,      \* the clock CURRENT_TIMESTAMP reads
    ui,       \* widget state of the last script run: button pressed, inputs, selection
    shown,    \* what the last script run rendered
    calls     \* the add_menu_item calls made so far (SpecAdd)

vars == <<disk, conn, pc, frame, now, ui, shown, calls>>

(***************************************************************************)
(* Bounds of the model.                                                    *)
(***************************************************************************)
MaxMenu   == 2    \* menu ids ever generated
MaxOrders == 2    \* order ids ever generated
MaxLen    == 2    \* length of an item_ids argument
MaxMisc   == 1    \* miscellaneous_expense rows
MaxBill   == 1    \* billings rows
MaxAdds   == 6    \* add_menu_item calls in SpecAdd

\* SQL NULL
NULL == -1

\* Record constructors list their fields in one fixed order throughout the
\* module (a record is the same record in whatever order its fields are written).

\* Inputs the sidebar form can submit: (name, price, cost).  Price and cost
\* differ and the empty name is there; a name repeats when an input is
\* submitted twice.
MenuInputs ==
    { [name |-> "a", price |-> 10, cost |-> 4],
      [name |-> "",  price |-> 5,  cost |-> 2] }

\* Readings of the clock, in hours since the epoch: Sun 2024-12-29 10:00,
\* Wed 2025-01-01 09:00 and 17:00, Thu 2025-01-02 10:00, Sat 2025-02-01 10:00.
ClockSamples ==
    { 20086 * 24 + 10, 20089 * 24 + 9, 20089 * 24 + 17,
      20090 * 24 + 10, 20120 * 24 + 10 }

FirstClock == CHOOSE t \in ClockSamples : \A u \in ClockSamples : t <= u

RECURSIVE SeqsUpTo(_, _)
SeqsUpTo(S, n) ==
    IF n = 0 THEN { <<>> }
    ELSE LET shorter == SeqsUpTo(S, n - 1)
         IN  shorter \cup { Append(s, x) : s \in shorter, x \in S }

\* item_ids arguments: the first two ids the menu generates, in any order and
\* repeated; either is absent from the menu before it is added and after it
\* is deleted
ItemIdPool == { 1, 2 }

ItemIdSeqs == SeqsUpTo(ItemIdPool, MaxLen)

(***************************************************************************)
(* Schema                                                                  *)
(***************************************************************************)
TableNames == { "menu", "orders", "order_items", "miscellaneous_expense", "billings" }

MenuCols   == { "id", "name", "price", "cost" }
OrdersCols == { "id", "created_at", "total_revenue", "total_cost" }

\* A database file that does not exist yet
NoFile ==
    [ tables |-> {}, menu_cols |-> {}, orders_cols |-> {}, created_default |-> FALSE,
      menu |-> <<>>, orders |-> <<>>, order_items |-> <<>>,
      miscellaneous_expense |-> <<>>, billings |-> <<>>,
      seq |-> [ menu |-> 0, orders |-> 0, miscellaneous_expense |-> 0, billings |-> 0 ] ]

\* CREATE TABLE IF NOT EXISTS: the five statements of _create_tables
CreateTablesIfNotExist(db) ==
    [ db EXCEPT
        !.tables = TableNames,
        !.menu_cols   = IF "menu" \in db.tables THEN db.menu_cols ELSE MenuCols,
        !.orders_cols = IF "orders" \in db.tables THEN db.orders_cols ELSE OrdersCols,
        !.created_default = IF "orders" \in db.tables THEN db.created_default ELSE TRUE ]

\* ALTER TABLE menu ADD COLUMN cost REAL DEFAULT 0.0
AlterMenuAddCost(db) ==
    [ db EXCEPT
        !.menu_cols = @ \cup { "cost" },
        !.menu = [ i \in 1 .. Len(@) |-> [ @[i] EXCEPT !.cost = 0 ] ] ]

\* ALTER TABLE orders ADD COLUMN created_at TIMESTAMP
AlterOrdersAddCreatedAt(db) ==
    [ db EXCEPT
        !.orders_cols = @ \cup { "created_at" },
        !.created_default = FALSE,
        !.orders = [ i \in 1 .. Len(@) |-> [ @[i] EXCEPT !.created_at = NULL ] ] ]

\* UPDATE orders SET created_at = CURRENT_TIMESTAMP WHERE created_at IS NULL
BackfillCreatedAt(db, t) ==
    [ db EXCEPT
        !.orders = [ i \in 1 .. Len(@) |->
                       IF @[i].created_at = NULL
                       THEN [ @[i] EXCEPT !.created_at = t ]
                       ELSE @[i] ] ]

\* ALTER TABLE orders ADD COLUMN total_revenue REAL DEFAULT 0.0
AlterOrdersAddRevenue(db) ==
    [ db EXCEPT
        !.orders_cols = @ \cup { "total_revenue" },
        !.orders = [ i \in 1 .. Len(@) |-> [ @[i] EXCEPT !.total_revenue = 0 ] ] ]

\* ALTER TABLE orders ADD COLUMN total_cost REAL DEFAULT 0.0
AlterOrdersAddCost(db) ==
    [ db EXCEPT
        !.orders_cols = @ \cup { "total_cost" },
        !.orders = [ i \in 1 .. Len(@) |-> [ @[i] EXCEPT !.total_cost = 0 ] ] ]

\* Mutant: 'cost' is looked up in the columns of orders instead of menu
MigrationStatementsWrongTable(db) ==
    LET d == CreateTablesIfNotExist(db)
    IN  (IF "cost" \notin d.orders_cols THEN << "ALTER menu ADD cost" >> ELSE <<>>)
        \o (IF "created_at" \notin d.orders_cols
            THEN << "ALTER orders ADD created_at", "UPDATE orders SET created_at" >>
            ELSE <<>>)
        \o (IF "total_revenue" \notin d.orders_cols
            THEN << "ALTER orders ADD total_revenue" >> ELSE <<>>)
        \o (IF "total_cost" \notin d.orders_cols
            THEN << "ALTER orders ADD total_cost" >> ELSE <<>>)

\* The migration statements _create_tables executes on db, in order, decided
\* by the two PRAGMA table_info reads (order_cols is read once, line 76).
MigrationStatements(db) ==
    LET d == CreateTablesIfNotExist(db)
    IN  (IF "cost" \notin d.menu_cols THEN << "ALTER menu ADD cost" >> ELSE <<>>)
        \o (IF "created_at" \notin d.orders_cols
            THEN << "ALTER orders ADD created_at", "UPDATE orders SET created_at" >>
            ELSE <<>>)
        \o (IF "total_revenue" \notin d.orders_cols
            THEN << "ALTER orders ADD total_revenue" >> ELSE <<>>)
        \o (IF "total_cost" \notin d.orders_cols
            THEN << "ALTER orders ADD total_cost" >> ELSE <<>>)

ExecMigration(db, stmt, t) ==
    CASE stmt = "ALTER menu ADD cost"            -> AlterMenuAddCost(db)
      [] stmt = "ALTER orders ADD created_at"    -> AlterOrdersAddCreatedAt(db)
      [] stmt = "UPDATE orders SET created_at"   -> BackfillCreatedAt(db, t)
      [] stmt = "ALTER orders ADD total_revenue" -> AlterOrdersAddRevenue(db)
      [] stmt = "ALTER orders ADD total_cost"    -> AlterOrdersAddCost(db)

RECURSIVE ExecAll(_, _, _)
ExecAll(db, stmts, t) ==
    IF stmts = <<>> THEN db
    ELSE ExecAll(ExecMigration(db, Head(stmts), t), Tail(stmts), t)

\* RestaurantDB._create_tables
create_tables(db, t) ==
    ExecAll(CreateTablesIfNotExist(db), MigrationStatements(db), t)

(***************************************************************************)
(* CRUD statements and methods                                             *)
(***************************************************************************)
\* Mutant: price and cost bound to each other's column
add_menu_item_swapped(db, name, price, cost) ==
    LET id == db.seq.menu + 1
    IN  [ db EXCEPT
            !.menu = Append(@, [ name |-> name, price |-> cost, cost |-> price, id |-> id ]),
            !.seq.menu = id ]

\* INSERT INTO menu (name, price, cost): AUTOINCREMENT takes the id after the
\* largest one the table ever held.
add_menu_item(db, name, price, cost) ==
    LET id == db.seq.menu + 1
    IN  [ db EXCEPT
            !.menu = Append(@, [ name |-> name, price |-> price, cost |-> cost, id |-> id ]),
            !.seq.menu = id ]

\* SELECT id, name, price, cost FROM menu: the rows in rowid order
get_menu(db) == db.menu

\* Mutant: the rows are matched on order_id instead of menu_id
DeleteOrderItemsByOrderId(db, item_id) ==
    LET Other(r) == r.order_id # item_id
    IN  [ db EXCEPT !.order_items = SelectSeq(@, Other) ]

\* DELETE FROM order_items WHERE menu_id = ?
DeleteOrderItemsOf(db, item_id) ==
    LET Other(r) == r.menu_id # item_id
    IN  [ db EXCEPT !.order_items = SelectSeq(@, Other) ]

\* DELETE FROM menu WHERE id = ?
DeleteMenuRow(db, item_id) ==
    LET Other(r) == r.id # item_id
    IN  [ db EXCEPT !.menu = SelectSeq(@, Other) ]

\* Mutant: only the menu row is deleted
delete_menu_row_only(db, item_id) == DeleteMenuRow(db, item_id)

\* Mutant: the orders that contained the item are deleted with it
delete_cascading_orders(db, item_id) ==
    LET Contains(o) == \E i \in 1 .. Len(db.order_items) :
                          /\ db.order_items[i].order_id = o.id
                          /\ db.order_items[i].menu_id = item_id
        Spared(o)   == ~ Contains(o)
        d           == DeleteMenuRow(DeleteOrderItemsOf(db, item_id), item_id)
    IN  [ d EXCEPT !.orders = SelectSeq(db.orders, Spared) ]

delete_menu_item(db, item_id) ==
    DeleteMenuRow(DeleteOrderItemsOf(db, item_id), item_id)

\* SELECT price, cost FROM menu WHERE id = ?  followed by fetchone()
LookupMenu(db, item_id) ==
    LET Hit(r) == r.id = item_id
    IN  SelectSeq(db.menu, Hit)

\* Mutant: row[0] is added to both totals
RECURSIVE SumTotalsPriceTwice(_, _, _, _)
SumTotalsPriceTwice(db, item_ids, total_rev, total_cost) ==
    IF item_ids = <<>> THEN [ total_cost |-> total_cost, total_rev |-> total_rev ]
    ELSE LET row == LookupMenu(db, Head(item_ids))
         IN  IF row # <<>>
             THEN SumTotalsPriceTwice(db, Tail(item_ids),
                                      total_rev + row[1].price, total_cost + row[1].price)
             ELSE SumTotalsPriceTwice(db, Tail(item_ids), total_rev, total_cost)

\* The first loop of place_order: a row adds its price and cost, a miss nothing
RECURSIVE SumTotals(_, _, _, _)
SumTotals(db, item_ids, total_rev, total_cost) ==
    IF item_ids = <<>> THEN [ total_cost |-> total_cost, total_rev |-> total_rev ]
    ELSE LET row == LookupMenu(db, Head(item_ids))
         IN  IF row # <<>>
             THEN SumTotals(db, Tail(item_ids),
                            total_rev + row[1].price, total_cost + row[1].cost)
             ELSE SumTotals(db, Tail(item_ids), total_rev, total_cost)

\* INSERT INTO orders (total_revenue, total_cost): created_at takes its column
\* default, CURRENT_TIMESTAMP in a table made by CREATE TABLE (line 35) and
\* none (NULL) in a column added by ALTER TABLE (line 78).
InsertOrder(db, total_rev, total_cost, t) ==
    LET id == db.seq.orders + 1
    IN  [ db EXCEPT
            !.orders = Append(@, [ created_at |-> IF db.created_default THEN t ELSE NULL,
                                   total_revenue |-> total_rev,
                                   total_cost |-> total_cost, id |-> id ]),
            !.seq.orders = id ]

\* INSERT INTO order_items (order_id, menu_id): foreign keys are not enforced
\* (no PRAGMA foreign_keys = ON), so any menu_id is stored.
InsertOrderItem(db, order_id, item_id) ==
    [ db EXCEPT !.order_items = Append(@, [ order_id |-> order_id, menu_id |-> item_id ]) ]

RECURSIVE InsertOrderItems(_, _, _)
InsertOrderItems(db, order_id, item_ids) ==
    IF item_ids = <<>> THEN db
    ELSE InsertOrderItems(InsertOrderItem(db, order_id, Head(item_ids)),
                          order_id, Tail(item_ids))

place_order(db, item_ids, t) ==
    LET totals   == SumTotals(db, item_ids, 0, 0)
        inserted == InsertOrder(db, totals.total_rev, totals.total_cost, t)
        order_id == inserted.seq.orders
    IN  InsertOrderItems(inserted, order_id, item_ids)

\* SELECT id, created_at, total_revenue, total_cost FROM orders, plus profit
get_orders_df(db) ==
    [ i \in 1 .. Len(db.orders) |->
        [ created_at    |-> db.orders[i].created_at,
          total_revenue |-> db.orders[i].total_revenue,
          total_cost    |-> db.orders[i].total_cost,
          id            |-> db.orders[i].id,
          profit        |-> db.orders[i].total_revenue - db.orders[i].total_cost ] ]

\* INSERT INTO miscellaneous_expense (amount, note): date defaults to DATE('now')
add_misc_expense(db, amount, note, t) ==
    LET id == db.seq.miscellaneous_expense + 1
    IN  [ db EXCEPT
            !.miscellaneous_expense =
                Append(@, [ id |-> id, amount |-> amount, note |-> note, date |-> t \div 24 ]),
            !.seq.miscellaneous_expense = id ]

\* SELECT date, amount, note FROM miscellaneous_expense
get_misc_expenses(db) ==
    [ i \in 1 .. Len(db.miscellaneous_expense) |->
        [ amount |-> db.miscellaneous_expense[i].amount,
          note   |-> db.miscellaneous_expense[i].note,
          date   |-> db.miscellaneous_expense[i].date ] ]

\* INSERT INTO billings (month, total_amount)
add_billing(db, month, total_amount) ==
    LET id == db.seq.billings + 1
    IN  [ db EXCEPT
            !.billings = Append(@, [ id |-> id, month |-> month, total_amount |-> total_amount ]),
            !.seq.billings = id ]

\* SELECT month, total_amount FROM billings
get_billings(db) ==
    [ i \in 1 .. Len(db.billings) |->
        [ month |-> db.billings[i].month, total_amount |-> db.billings[i].total_amount ] ]

(***************************************************************************)
(* Sales report: period labels and the grouped sums                        *)
(***************************************************************************)
Timeframes == { "Daily", "Weekly", "Monthly", "Yearly" }

\* The proleptic Gregorian date <<year, month, day>> of a day number (days
\* since 1970-01-01), as the datetime accessors compute it.
CivilFromDays(days) ==
    LET z   == days + 719468
        era == z \div 146097
        doe == z - era * 146097
        yoe == (doe - doe \div 1460 + doe \div 36524 - doe \div 146096) \div 365
        doy == doe - (365 * yoe + yoe \div 4 - yoe \div 100)
        mp  == (5 * doy + 2) \div 153
        d   == doy - (153 * mp + 2) \div 5 + 1
        m   == IF mp < 10 THEN mp + 3 ELSE mp - 9
        y   == yoe + era * 400 + (IF m <= 2 THEN 1 ELSE 0)
    IN  << y, m, d >>

\* The label str() gives a missing timestamp
NaT == << NULL >>

\* Mutant: weeks cut at the weekday of the epoch (Thursday) instead of Monday
PeriodLabelThursdayWeek(created_at, timeframe) ==
    IF created_at = NULL THEN NaT
    ELSE LET days   == created_at \div 24
             ymd    == CivilFromDays(days)
             monday == days - (days % 7)
         IN  CASE timeframe = "Daily"   -> ymd
               [] timeframe = "Weekly"  -> CivilFromDays(monday) \o CivilFromDays(monday + 6)
               [] timeframe = "Monthly" -> << ymd[1], ymd[2] >>
               [] OTHER                 -> << ymd[1] >>

\* The 'period' column of one row.  Labels are the digit groups of the
\* rendered string: "2025-01-01", "2024-12-30/2025-01-05" (the Monday-to-Sunday
\* week), "2025-01", "2025".
PeriodLabel(created_at, timeframe) ==
    IF created_at = NULL THEN NaT
    ELSE LET days   == created_at \div 24
             ymd    == CivilFromDays(days)
             monday == days - ((days + 3) % 7)
         IN  CASE timeframe = "Daily"   -> ymd
               [] timeframe = "Weekly"  -> CivilFromDays(monday) \o CivilFromDays(monday + 6)
               [] timeframe = "Monthly" -> << ymd[1], ymd[2] >>
               [] OTHER                 -> << ymd[1] >>

\* String order of two labels of one timeframe: zero-padded digit groups
\* compare as their numbers do, and "NaT" sorts after every digit.
RECURSIVE LexLess(_, _)
LexLess(a, b) ==
    IF a = <<>> \/ b = <<>> THEN a = <<>> /\ b # <<>>
    ELSE IF Head(a) # Head(b) THEN Head(a) < Head(b)
    ELSE LexLess(Tail(a), Tail(b))

LabelLess(a, b) ==
    IF a = NaT THEN FALSE ELSE IF b = NaT THEN TRUE ELSE LexLess(a, b)

\* The labels of S in ascending order: the k-th has k - 1 labels before it
SortLabels(S) ==
    [ k \in 1 .. Cardinality(S) |->
        CHOOSE a \in S : Cardinality({ b \in S : LabelLess(b, a) }) = k - 1 ]

RECURSIVE SumCol(_, _)
SumCol(rows, col) ==
    IF rows = <<>> THEN 0 ELSE Head(rows)[col] + SumCol(Tail(rows), col)

\* df.groupby('period')[['total_revenue','total_cost','profit']].sum()
GroupRow(df, timeframe, key) ==
    LET InGroup(r) == PeriodLabel(r.created_at, timeframe) = key
    IN  CHOOSE row \in { [ total_revenue |-> SumCol(rows, "total_revenue"),
                           total_cost    |-> SumCol(rows, "total_cost"),
                           profit        |-> SumCol(rows, "profit"),
                           period        |-> key ] :
                         rows \in { SelectSeq(df, InGroup) } } : TRUE

groupby_sum(df, timeframe) ==
    CHOOSE grouped \in
      { [ g \in 1 .. Len(keys) |-> GroupRow(df, timeframe, keys[g]) ] :
        keys \in { SortLabels({ PeriodLabel(df[i].created_at, timeframe) :
                                  i \in 1 .. Len(df) }) } } : TRUE

\* The sales report section: st.info on an empty frame, else the grouped table
sales_report(df, timeframe) ==
    IF df = <<>> THEN [ grouped |-> <<>>, info |-> TRUE ]
    ELSE [ grouped |-> groupby_sum(df, timeframe), info |-> FALSE ]

(***************************************************************************)
(* The connection                                                          *)
(***************************************************************************)
\* Mutant: isolation_level=None, every statement is committed as it runs
autocommit == FALSE

\* sqlite3.connect(db_name, check_same_thread=False) leaves isolation_level at
\* its default: the first INSERT/UPDATE/DELETE opens a transaction that lasts
\* until commit(), and closing or losing the connection rolls it back.
implicit_transaction == TRUE

\* What the file holds after the connection executed a statement giving `after`
OnDisk(before, after) == IF implicit_transaction THEN before ELSE after

(***************************************************************************)
(* The script: one execution, top to bottom                                *)
(***************************************************************************)
MiscInputs == { [ amount |-> 3, note |-> "gas" ] }

BillingInputs == { [ month |-> "2025-05", total_amount |-> 7 ] }

MenuIds(menu_items) == { menu_items[i].id : i \in 1 .. Len(menu_items) }

\* The values the multiselect can return: options in the order picked, each
\* option at most once
Selections(menu_items) ==
    { s \in SeqsUpTo(MenuIds(menu_items), MaxLen) :
        \A i, j \in 1 .. Len(s) : i # j => s[i] # s[j] }

\* Mutant: the button alone decides
PlaceOrderUnguarded(button, selected) == button = "Place Order"

\* if st.button("Place Order") and selected:
PlaceOrderTriggered(button, selected) ==
    button = "Place Order" /\ selected # <<>>

\* What a run has rendered before any section ran
BlankPage ==
    [ menu |-> <<>>, billings |-> <<>>,
      report |-> [ grouped |-> <<>>, info |-> TRUE ], misc |-> <<>> ]

\* db = RestaurantDB(); menu_items = db.get_menu()
LoadMenu(db0, t) ==
    CHOOSE run \in { [ shown |-> BlankPage, db |-> db, menu_items |-> get_menu(db) ] :
                     db \in { create_tables(db0, t) } } : TRUE

\* Sidebar: the Add Item button
AddItemSection(run, w) ==
    CHOOSE out \in { [ r EXCEPT !.db = IF w.button = "Add Item"
                                       THEN add_menu_item(r.db, w.arg.name, w.arg.price, w.arg.cost)
                                       ELSE r.db ] :
                     r \in { run } } : TRUE

\* The menu list: the rows of menu_items, loaded before the Add Item section
MenuSection(run) ==
    CHOOSE out \in { [ r EXCEPT !.shown.menu = r.menu_items ] : r \in { run } } : TRUE

\* The Place Order button
OrderSection(run, w, t) ==
    CHOOSE out \in { [ r EXCEPT !.db =
                         IF PlaceOrderTriggered(w.button,
                                IF w.button = "Place Order" THEN w.arg ELSE <<>>)
                         THEN place_order(r.db, w.arg, t)
                         ELSE r.db ] :
                     r \in { run } } : TRUE

\* df = db.get_orders_df() and the report
ReportSection(run, w) ==
    CHOOSE out \in { [ r EXCEPT !.shown.report = sales_report(df, w.timeframe) ] :
                     r \in { run }, df \in { get_orders_df(run.db) } } : TRUE

\* The Add Expense button, then misc_df = db.get_misc_expenses()
ExpenseSection(run, w, t) ==
    CHOOSE out \in { [ r EXCEPT !.db = db, !.shown.misc = get_misc_expenses(db) ] :
                     r \in { run },
                     db \in { IF w.button = "Add Expense"
                              THEN add_misc_expense(run.db, w.arg.amount, w.arg.note, t)
                              ELSE run.db } } : TRUE

\* The Add Billing button, then billing_df = db.get_billings()
BillingSection(run, w) ==
    CHOOSE out \in { [ r EXCEPT !.db = db, !.shown.billings = get_billings(db) ] :
                     r \in { run },
                     db \in { IF w.button = "Add Billing"
                              THEN add_billing(run.db, w.arg.month, w.arg.total_amount)
                              ELSE run.db } } : TRUE

\* Lines 146-222 without the delete branch: w is the widget state of this run
ScriptBody(db0, w, t) ==
    BillingSection(
      ExpenseSection(
        ReportSection(
          OrderSection(
            MenuSection(AddItemSection(LoadMenu(db0, t), w)),
            w, t),
          w),
        w, t),
      w)

\* One interaction.  The delete button of a menu row calls delete_menu_item
\* and st.experimental_rerun(): the run stops there and the script starts
\* again from the top with no button pressed.
Script(db0, w, t) ==
    IF w.button = "Delete"
    THEN ScriptBody(delete_menu_item(create_tables(db0, t), w.arg),
                    [ w EXCEPT !.button = "none" ], t)
    ELSE ScriptBody(db0, w, t)

(***************************************************************************)
(* State                                                                   *)
(***************************************************************************)
NoFrame == [ total_cost |-> 0, order_id |-> 0, item_ids |-> <<>>,
             total_rev |-> 0, k |-> 0, outcome |-> "none" ]

NoWidgets == [ timeframe |-> "Daily", button |-> "none", arg |-> <<>> ]

\* The state after the first RestaurantDB() of a fresh installation, and the
\* first rendering of the page
Init ==
    /\ now   = FirstClock
    /\ disk  = create_tables(NoFile, now)
    /\ conn  = disk
    /\ pc    = "idle"
    /\ frame = NoFrame
    /\ ui    = NoWidgets
    /\ shown = ScriptBody(disk, NoWidgets, now).shown
    /\ calls = <<>>

\* A whole method call on the connection, committed
Committed(db) ==
    /\ pc = "idle"
    /\ disk' = db
    /\ conn' = db
    /\ frame' = NoFrame
    /\ UNCHANGED <<pc, now, ui, shown, calls>>

Tick ==
    /\ pc = "idle"
    /\ \E t \in ClockSamples : t > now /\ now' = t
    /\ UNCHANGED <<disk, conn, pc, frame, ui, shown, calls>>

(***************************************************************************)
(* Spec: the menu and order methods of the persistence layer, called       *)
(* directly with any arguments                                             *)
(***************************************************************************)
Construct == Committed(create_tables(disk, now))

AddMenuItem(in) ==
    /\ disk.seq.menu < MaxMenu
    /\ Committed(add_menu_item(disk, in.name, in.price, in.cost))

DeleteMenuItem(item_id) == Committed(delete_menu_item(disk, item_id))

PlaceOrder(item_ids) ==
    /\ disk.seq.orders < MaxOrders
    /\ Committed(place_order(disk, item_ids, now))

Next ==
    \/ Construct
    \/ \E in \in MenuInputs : AddMenuItem(in)
    \/ \E item_id \in ItemIdPool : DeleteMenuItem(item_id)
    \/ \E item_ids \in ItemIdSeqs : PlaceOrder(item_ids)

Spec == Init /\ [][Next]_vars

(***************************************************************************)
(* SpecUI: one user, one browser session.  Every interaction runs the      *)
(* script once with at most one button pressed.  The "View by" selectbox   *)
(* stays at its first option here; SpecReport moves it.                    *)
(***************************************************************************)
Interaction(w) ==
    /\ pc = "idle"
    /\ \E out \in { Script(disk, w, now) } :
           /\ disk' = out.db
           /\ conn' = out.db
           /\ shown' = out.shown
    /\ ui' = w
    /\ UNCHANGED <<pc, frame, now, calls>>

\* The page is reloaded: a run with no button pressed
Reload ==
    Interaction([ timeframe |-> ui.timeframe, button |-> "none", arg |-> <<>> ])

ClickAddItem(in) ==
    /\ disk.seq.menu < MaxMenu
    /\ Interaction([ timeframe |-> ui.timeframe, button |-> "Add Item", arg |-> in ])

\* The delete buttons are those of the rows of menu_items, loaded at line 147
ClickDelete(item_id) ==
    /\ item_id \in MenuIds(get_menu(disk))
    /\ Interaction([ timeframe |-> ui.timeframe, button |-> "Delete", arg |-> item_id ])

\* The multiselect offers the rows of menu_items; nothing need be selected
ClickPlaceOrder(selected) ==
    /\ disk.seq.orders < MaxOrders
    /\ selected \in Selections(get_menu(disk))
    /\ Interaction([ timeframe |-> ui.timeframe, button |-> "Place Order", arg |-> selected ])

ClickAddExpense(in) ==
    /\ disk.seq.miscellaneous_expense < MaxMisc
    /\ Interaction([ timeframe |-> ui.timeframe, button |-> "Add Expense", arg |-> in ])

ClickAddBilling(in) ==
    /\ disk.seq.billings < MaxBill
    /\ Interaction([ timeframe |-> ui.timeframe, button |-> "Add Billing", arg |-> in ])

NextUI ==
    \/ Reload
    \/ \E in \in MenuInputs : ClickAddItem(in)
    \/ \E item_id \in ItemIdPool : ClickDelete(item_id)
    \/ \E selected \in ItemIdSeqs : ClickPlaceOrder(selected)
    \/ \E in \in MiscInputs : ClickAddExpense(in)
    \/ \E in \in BillingInputs : ClickAddBilling(in)

SpecUI == Init /\ [][NextUI]_vars

(***************************************************************************)
(* SpecReport: the sales report over order histories.  The initial states  *)
(* are databases whose menu rows were deleted after the orders were        *)
(* placed; a NULL created_at is what an order placed on a migrated         *)
(* database holds (InsertOrder).                                           *)
(***************************************************************************)
MaxHistory == 3

OrderTotals == { [ total_revenue |-> 10, total_cost |-> 4 ],
                 [ total_revenue |-> 15, total_cost |-> 6 ] }

\* The clock never runs backwards between two orders
Chronological(stamps) ==
    \A i, j \in 1 .. Len(stamps) :
        (i < j /\ stamps[i] # NULL /\ stamps[j] # NULL) => stamps[i] <= stamps[j]

Histories ==
    { [ i \in 1 .. Len(stamps) |->
          [ created_at    |-> stamps[i],
            total_revenue |-> totals[i].total_revenue,
            total_cost    |-> totals[i].total_cost,
            id            |-> i ] ] :
      <<stamps, totals>> \in
        { st \in SeqsUpTo(ClockSamples \cup { NULL }, MaxHistory)
                 \X SeqsUpTo(OrderTotals, MaxHistory) :
            Len(st[1]) = Len(st[2]) /\ Chronological(st[1]) } }

InitReport ==
    /\ now = CHOOSE t \in ClockSamples : \A u \in ClockSamples : u <= t
    /\ \E h \in Histories :
         disk = [ create_tables(NoFile, now) EXCEPT
                    !.orders = h, !.seq.orders = Len(h), !.seq.menu = 2,
                    !.created_default = \A i \in 1 .. Len(h) : h[i].created_at # NULL ]
    /\ conn  = disk
    /\ pc    = "idle"
    /\ frame = NoFrame
    /\ ui    = NoWidgets
    /\ shown = ScriptBody(disk, NoWidgets, now).shown
    /\ calls = <<>>

\* The "View by" selectbox is set: a run with no button pressed
ChangeView(timeframe) ==
    Interaction([ timeframe |-> timeframe, button |-> "none", arg |-> <<>> ])

NextReport == \E timeframe \in Timeframes : ChangeView(timeframe)

SpecReport == InitReport /\ [][NextReport]_vars

(***************************************************************************)
(* SpecAdd: a client that only adds menu items to a fresh database and     *)
(* keeps the list of what it added                                         *)
(***************************************************************************)
AddCall(in) ==
    /\ pc = "idle"
    /\ Len(calls) < MaxAdds
    /\ disk' = add_menu_item(disk, in.name, in.price, in.cost)
    /\ conn' = disk'
    /\ calls' = Append(calls, in)
    /\ UNCHANGED <<pc, frame, now, ui, shown>>

NextAdd == \E in \in MenuInputs : AddCall(in)

SpecAdd == Init /\ [][NextAdd]_vars

(***************************************************************************)
(* SpecSchema: RestaurantDB() on the database files earlier versions of    *)
(* the program left behind                                                 *)
(***************************************************************************)
MaxLegacyRows == 1

LegacyFiles ==
    { [ tables |-> { "menu", "orders", "order_items" },
        menu_cols |-> mc, orders_cols |-> oc, created_default |-> dflt,
        menu |-> [ i \in 1 .. nm |->
                     [ name |-> "a", price |-> 10,
                       cost |-> IF "cost" \in mc THEN 4 ELSE NULL, id |-> i ] ],
        orders |-> [ i \in 1 .. no |->
                     [ created_at    |-> IF "created_at" \in oc THEN FirstClock ELSE NULL,
                       total_revenue |-> IF "total_revenue" \in oc THEN 10 ELSE NULL,
                       total_cost    |-> IF "total_cost" \in oc THEN 4 ELSE NULL,
                       id            |-> i ] ],
        order_items |-> [ i \in 1 .. (IF nm < no THEN nm ELSE no) |->
                            [ order_id |-> i, menu_id |-> i ] ],
        miscellaneous_expense |-> <<>>, billings |-> <<>>,
        seq |-> [ menu |-> nm, orders |-> no, miscellaneous_expense |-> 0, billings |-> 0 ] ] :
      mc \in { MenuCols, MenuCols \ { "cost" } },
      oc \in { { "id" } \cup added : added \in SUBSET (OrdersCols \ { "id" }) },
      dflt \in BOOLEAN, nm \in 0 .. MaxLegacyRows, no \in 0 .. MaxLegacyRows }

InitSchema ==
    /\ now   = FirstClock
    /\ disk \in { f \in LegacyFiles \cup { NoFile } :
                    f.created_default => "created_at" \in f.orders_cols }
    /\ conn  = disk
    /\ pc    = "idle"
    /\ frame = NoFrame
    /\ ui    = NoWidgets
    /\ shown = BlankPage
    /\ calls = <<>>

NextSchema == Construct \/ Tick

SpecSchema == InitSchema /\ [][NextSchema]_vars

(***************************************************************************)
(* SpecCrash: place_order statement by statement, with the process dying   *)
(* or a statement raising at any point                                     *)
(***************************************************************************)
MaxCrashOrders == 1

BeginPlaceOrder(item_ids) ==
    /\ pc = "idle"
    /\ disk.seq.orders < MaxCrashOrders
    /\ LET totals == SumTotals(conn, item_ids, 0, 0)
       IN  frame' = [ total_cost |-> totals.total_cost, order_id |-> 0,
                      item_ids |-> item_ids, total_rev |-> totals.total_rev,
                      k |-> 1, outcome |-> "running" ]
    /\ pc' = "insert_order"
    /\ UNCHANGED <<disk, conn, now, ui, shown, calls>>

InsertOrderStep ==
    /\ pc = "insert_order"
    /\ conn' = InsertOrder(conn, frame.total_rev, frame.total_cost, now)
    /\ disk' = OnDisk(disk, conn')
    /\ frame' = [ frame EXCEPT !.order_id = conn'.seq.orders ]
    /\ pc' = "insert_items"
    /\ UNCHANGED <<now, ui, shown, calls>>

InsertItemStep ==
    /\ pc = "insert_items"
    /\ frame.k <= Len(frame.item_ids)
    /\ conn' = InsertOrderItem(conn, frame.order_id, frame.item_ids[frame.k])
    /\ disk' = OnDisk(disk, conn')
    /\ frame' = [ frame EXCEPT !.k = @ + 1 ]
    /\ UNCHANGED <<pc, now, ui, shown, calls>>

CommitStep ==
    /\ pc = "insert_items"
    /\ frame.k > Len(frame.item_ids)
    /\ disk' = conn
    /\ frame' = [ frame EXCEPT !.outcome = "committed" ]
    /\ pc' = "idle"
    /\ UNCHANGED <<conn, now, ui, shown, calls>>

\* The process dies, or the statement about to run raises and the exception
\* ends the script run: the connection is dropped with its transaction open.
Fail ==
    /\ pc # "idle"
    /\ conn' = disk
    /\ frame' = [ frame EXCEPT !.outcome = "failed" ]
    /\ pc' = "idle"
    /\ UNCHANGED <<disk, now, ui, shown, calls>>

NextCrash ==
    \/ \E in \in MenuInputs : AddMenuItem(in)
    \/ \E item_ids \in ItemIdSeqs : BeginPlaceOrder(item_ids)
    \/ InsertOrderStep
    \/ InsertItemStep
    \/ CommitStep
    \/ Fail

SpecCrash == Init /\ [][NextCrash]_vars

(***************************************************************************)
(* Properties                                                              *)
(***************************************************************************)
OrderIds(db) == { db.orders[i].id : i \in 1 .. Len(db.orders) }

\* The order_items rows of one order, in table order
ItemsOf(db, order_id) ==
    LET Mine(r) == r.order_id = order_id
    IN  SelectSeq(db.order_items, Mine)

Occurrences(item_ids, item_id) ==
    Cardinality({ i \in 1 .. Len(item_ids) : item_ids[i] = item_id })

\* Sum over the menu rows of column col times the number of times the row's
\* id occurs in item_ids
RECURSIVE Charged(_, _, _)
Charged(menu_rows, item_ids, col) ==
    IF menu_rows = <<>> THEN 0
    ELSE Head(menu_rows)[col] * Occurrences(item_ids, Head(menu_rows).id)
         + Charged(Tail(menu_rows), item_ids, col)

IsPrefix(s, t) == Len(s) <= Len(t) /\ \A i \in 1 .. Len(s) : s[i] = t[i]

\* C1: place_order(item_ids), for any item_ids, adds exactly one order; its
\* total_revenue and total_cost are the prices and costs, at call time, of
\* the menu rows item_ids names, once per occurrence, an absent id adding
\* nothing; it adds one order_items row per element of item_ids, in order,
\* carrying the new order id; get_orders_df reports profit = revenue - cost.
C1_PlaceOrderTotals ==
    [][ \A item_ids \in ItemIdSeqs :
          PlaceOrder(item_ids) =>
            LET n    == Len(disk.orders)
                new  == disk'.orders[n + 1]
                rev  == Charged(disk.menu, item_ids, "price")
                cost == Charged(disk.menu, item_ids, "cost")
            IN  /\ Len(disk'.orders) = n + 1
                /\ IsPrefix(disk.orders, disk'.orders)
                /\ new.id \notin OrderIds(disk)
                /\ new.total_revenue = rev
                /\ new.total_cost = cost
                /\ disk'.order_items =
                     disk.order_items \o
                       [ i \in 1 .. Len(item_ids) |->
                           [ order_id |-> new.id, menu_id |-> item_ids[i] ] ]
                /\ get_orders_df(disk')[n + 1].profit = rev - cost
                /\ disk'.menu = disk.menu ]_vars

\* An order of the two menu items (10, 4) and (5, 2): revenue 15, cost 6,
\* profit 9, two order_items rows
C1_Witness ==
    \E i \in 1 .. Len(disk.orders) :
        /\ disk.orders[i].total_revenue = 15
        /\ disk.orders[i].total_cost = 6
        /\ get_orders_df(disk)[i].profit = 9
        /\ Len(ItemsOf(disk, disk.orders[i].id)) = 2

\* C2: delete_menu_item(id) removes the menu row with that id and every
\* order_items row whose menu_id is id, and leaves every other menu row,
\* every other order_items row and every orders row as it was.
C2_DeleteFrame ==
    [][ \A item_id \in ItemIdPool :
          DeleteMenuItem(item_id) =>
            LET OtherMenu(r) == r.id # item_id
                OtherItem(r) == r.menu_id # item_id
            IN  /\ item_id \notin MenuIds(get_menu(disk'))
                /\ get_menu(disk') = SelectSeq(disk.menu, OtherMenu)
                /\ disk'.order_items = SelectSeq(disk.order_items, OtherItem)
                /\ disk'.orders = disk.orders
                /\ disk'.seq = disk.seq ]_vars

\* A menu id was deleted and an order that contained it keeps its totals,
\* with none of its order_items rows left
C2_Witness ==
    /\ \E item_id \in 1 .. disk.seq.menu : item_id \notin MenuIds(disk.menu)
    /\ \E i \in 1 .. Len(disk.orders) :
         /\ disk.orders[i].total_revenue > 0
         /\ ItemsOf(disk, disk.orders[i].id) = <<>>
    /\ disk.menu # <<>>

\* C3: after any sequence of add_menu_item calls on an empty menu, get_menu
\* returns one item per call, in call order, with ids 1, 2, ... and the name,
\* price and cost of the call; equal names stay separate items and the empty
\* name is stored.
C3_MenuIsCallList ==
    get_menu(disk) =
      [ i \in 1 .. Len(calls) |->
          [ name |-> calls[i].name, price |-> calls[i].price,
            cost |-> calls[i].cost, id |-> i ] ]

\* Three calls, two of them with the same name and one with the empty name
C3_Witness ==
    /\ Len(calls) = 3
    /\ calls[1].name = calls[3].name
    /\ calls[2].name = ""
    /\ Len(get_menu(disk)) = 3

\* C4 as stated: once an order is committed, its row and the set of its
\* order_items rows stay as they were created, whatever is called later.
C4_OrdersAndItemsImmutable ==
    [][ \A i \in 1 .. Len(disk.orders) :
          /\ i <= Len(disk'.orders)
          /\ disk'.orders[i].id = disk.orders[i].id
          /\ disk'.orders[i].total_revenue = disk.orders[i].total_revenue
          /\ disk'.orders[i].total_cost = disk.orders[i].total_cost
          /\ ItemsOf(disk', disk.orders[i].id) = ItemsOf(disk, disk.orders[i].id) ]_vars

\* C4 (amended): an order row never changes after creation, and the
\* order_items rows of an existing order are never added to or altered; they
\* are removed only by delete_menu_item(id), which removes exactly those of
\* them whose menu_id is id.
C4_OrderRowsImmutable ==
    [][ \A i \in 1 .. Len(disk.orders) :
          LET order_id  == disk.orders[i].id
              Kept(r)   == r.menu_id # ui'.arg
          IN  /\ i <= Len(disk'.orders)
              /\ disk'.orders[i] = disk.orders[i]
              /\ \/ ItemsOf(disk', order_id) = ItemsOf(disk, order_id)
                 \/ /\ ui'.button = "Delete"
                    /\ ItemsOf(disk', order_id) = SelectSeq(ItemsOf(disk, order_id), Kept) ]_vars

\* An order of two items, one of which was then deleted from the menu, was
\* followed by an expense entry: the order keeps its totals and one row
C4_Witness ==
    /\ ui.button = "Add Expense"
    /\ \E i \in 1 .. Len(disk.orders) :
         /\ disk.orders[i].total_revenue = 15
         /\ Len(ItemsOf(disk, disk.orders[i].id)) = 1

C6_SecondRunIsNoOp ==
    \A t \in ClockSamples :
        t >= now =>
          LET once == create_tables(disk, now)
          IN  /\ once.tables = TableNames
              /\ CreateTablesIfNotExist(once) = once
              /\ MigrationStatements(once) = <<>>
              /\ create_tables(once, t) = once

\* A database of an earlier version, with rows, after its migration: all five
\* tables, the added columns filled for the old rows
C6_Witness ==
    /\ disk.tables = TableNames
    /\ disk.menu_cols = MenuCols /\ disk.orders_cols = OrdersCols
    /\ ~ disk.created_default
    /\ \E i \in 1 .. Len(disk.menu) : disk.menu[i].cost = 0
    /\ \E i \in 1 .. Len(disk.orders) :
         /\ disk.orders[i].created_at \in ClockSamples \ { FirstClock }
         /\ disk.orders[i].total_revenue = 0
         /\ disk.orders[i].total_cost = 0

\* Whether two created_at values fall in the same period
SamePeriod(a, b, timeframe) ==
    IF a = NULL \/ b = NULL THEN a = b
    ELSE LET da == a \div 24
             db == b \div 24
         IN  CASE timeframe = "Daily"   -> da = db
               [] timeframe = "Weekly"  -> (da + 3) \div 7 = (db + 3) \div 7
               [] timeframe = "Monthly" ->
                    /\ CivilFromDays(da)[1] = CivilFromDays(db)[1]
                    /\ CivilFromDays(da)[2] = CivilFromDays(db)[2]
               [] OTHER -> CivilFromDays(da)[1] = CivilFromDays(db)[1]

RECURSIVE SumWhere(_, _, _, _)
SumWhere(df, col, stamp, timeframe) ==
    IF df = <<>> THEN 0
    ELSE (IF SamePeriod(Head(df).created_at, stamp, timeframe) THEN Head(df)[col] ELSE 0)
         + SumWhere(Tail(df), col, stamp, timeframe)

\* C7: for a non-empty order history and each granularity the report has one
\* row per distinct period among the orders; a row's total_revenue,
\* total_cost and profit are the sums over the orders of that period, so
\* each order is counted in exactly one row and the column sums equal the
\* sums over all orders.  For an empty history it shows the no-data state.
\* The page shows the report of the selected granularity.
C7_ReportPartitionsOrders ==
    /\ shown.report = sales_report(get_orders_df(disk), ui.timeframe)
    /\ \A timeframe \in Timeframes :
        LET df      == get_orders_df(disk)
            report  == sales_report(df, timeframe)
            grouped == report.grouped
            RowsOf(i) == { g \in 1 .. Len(grouped) :
                             grouped[g].period = PeriodLabel(df[i].created_at, timeframe) }
        IN  IF df = <<>>
            THEN report.info /\ grouped = <<>>
            ELSE /\ ~ report.info
                 /\ \A i \in 1 .. Len(df) : Cardinality(RowsOf(i)) = 1
                 /\ \A g \in 1 .. Len(grouped) : \E i \in 1 .. Len(df) : g \in RowsOf(i)
                 /\ \A i, j \in 1 .. Len(df) :
                      (RowsOf(i) = RowsOf(j))
                        <=> SamePeriod(df[i].created_at, df[j].created_at, timeframe)
                 /\ \A i \in 1 .. Len(df) : \A g \in RowsOf(i) :
                      /\ grouped[g].total_revenue =
                           SumWhere(df, "total_revenue", df[i].created_at, timeframe)
                      /\ grouped[g].total_cost =
                           SumWhere(df, "total_cost", df[i].created_at, timeframe)
                      /\ grouped[g].profit =
                           SumWhere(df, "total_revenue", df[i].created_at, timeframe)
                           - SumWhere(df, "total_cost", df[i].created_at, timeframe)
                 /\ SumCol(grouped, "total_revenue") = SumCol(disk.orders, "total_revenue")
                 /\ SumCol(grouped, "total_cost") = SumCol(disk.orders, "total_cost")
                 /\ SumCol(grouped, "profit")
                      = SumCol(disk.orders, "total_revenue") - SumCol(disk.orders, "total_cost")

\* Orders of 2025-01-01, 2025-01-02 and 2025-02-01 viewed by month: the row
\* "2025-01" sums the first two, the row "2025-02" holds the third
C7_Witness ==
    /\ ui.timeframe = "Monthly"
    /\ Len(disk.orders) = 3
    /\ disk.orders[1].created_at \div 24 = 20089
    /\ disk.orders[2].created_at \div 24 = 20090
    /\ disk.orders[3].created_at \div 24 = 20120
    /\ disk.orders[1].total_revenue = 10 /\ disk.orders[2].total_revenue = 15
    /\ Len(shown.report.grouped) = 2
    /\ shown.report.grouped[1].period = << 2025, 1 >>
    /\ shown.report.grouped[1].total_revenue = 25
    /\ shown.report.grouped[1].profit = 15
    /\ shown.report.grouped[2].period = << 2025, 2 >>

\* C8 as stated: the Place Order button with nothing selected creates one
\* order with total_revenue 0, total_cost 0 and no order_items rows.
C8_EmptySelectionCreatesOrder ==
    [][ ClickPlaceOrder(<<>>) =>
          /\ Len(disk'.orders) = Len(disk.orders) + 1
          /\ disk'.orders[Len(disk'.orders)].total_revenue = 0
          /\ disk'.orders[Len(disk'.orders)].total_cost = 0
          /\ disk'.order_items = disk.order_items ]_vars

\* C8 (amended): the Place Order button with nothing selected is guarded by
\* the script: place_order is not called and the database is left as it was.
C8_EmptySelectionIsGuarded ==
    [][ ClickPlaceOrder(<<>>) => disk' = disk ]_vars

\* The Place Order button was pressed with nothing selected, the menu not
\* being empty
C8_Witness ==
    /\ ui.button = "Place Order"
    /\ ui.arg = <<>>
    /\ disk.menu # <<>>

\* C9: at the end of every interaction the page shows the committed
\* database: the menu list, the order report, the expense table and the
\* billing table each equal what the database holds after the write.
C9_PageShowsDatabase ==
    /\ shown.menu = get_menu(disk)
    /\ shown.report = sales_report(get_orders_df(disk), ui.timeframe)
    /\ shown.misc = get_misc_expenses(disk)
    /\ shown.billings = get_billings(disk)

\* C10: in a session driven through the page, every order_items row names
\* an existing order and a menu row that currently exists.
C10_OrderItemsReferToRows ==
    \A i \in 1 .. Len(disk.order_items) :
        /\ disk.order_items[i].order_id \in OrderIds(disk)
        /\ disk.order_items[i].menu_id \in MenuIds(disk.menu)

\* A menu item was deleted after an order of two items that contained it:
\* the order's other row is still there
C10_Witness ==
    /\ ui.button = "Delete"
    /\ \E i \in 1 .. Len(disk.orders) :
         /\ disk.orders[i].total_revenue = 15
         /\ Len(ItemsOf(disk, disk.orders[i].id)) = 1

====
